---- MODULE Spec2Model ----
(***************************************************************************)
(* A model of the dsp_core crate (src/web/crates/dsp_core/src/lib.rs):     *)
(* the four exported operations fft_real, apply_window, magnitude_dbfs and *)
(* stft_frame, executed by threads that share the process-wide FFT planner *)
(* (a OnceLock<Mutex<FftPlanner<f32>>>).                                   *)
(*                                                                         *)
(* f32 values are modelled as records [cls, v, e]:                         *)
(*   cls = "fin": the number v * 10^e / SCALE (decimal fixed point with a  *)
(*                decimal exponent; sample values have e = 0),             *)
(*   cls = "nan": NaN,   cls = "inf": +infinity (v = 1) or -infinity       *)
(*                (v = -1).                                                *)
(* Angles are counted in twelfths of a full turn (TWO_PI = 12), which      *)
(* makes cos and sin exact at every angle the modelled block lengths use.  *)
(***************************************************************************)
EXTENDS Integers, Sequences, FiniteSets, TLC

\* ------------------------------------------------------------------ bounds
\* Number of threads calling into the crate concurrently.
NThreads == 2
\* Finite sample amplitudes range over -1..MaxAmp.
MaxAmp == 1
\* Cap on the number of plan constructions the model follows.
MaxPlans == 4

\* Block lengths the model draws: 0 (empty), 1 (denominator clamp) and 4;
\* at these lengths every window phase and every DFT angle is a multiple of
\* a twelfth of a turn at which cos and sin are exact in the fixed point.
Lengths == {0, 1, 4}

\* Fixed-point resolution: a finite value v stands for v / SCALE.
SCALE == 10 * 10

\* ------------------------------------------------------------ f32 values
Fin(x) == [cls |-> "fin", v |-> x, e |-> 0]
NaN == [cls |-> "nan", v |-> 0, e |-> 0]
PosInf == [cls |-> "inf", v |-> 1, e |-> 0]
NegInf == [cls |-> "inf", v |-> -1, e |-> 0]

\* f32::is_finite
IsFinite(x) == x.cls = "fin"

Abs(n) == IF n < 0 THEN -n ELSE n
Sgn(n) == IF n < 0 THEN -1 ELSE IF n > 0 THEN 1 ELSE 0

RECURSIVE Pow10(_)
Pow10(k) == IF k <= 0 THEN 1 ELSE 10 * Pow10(k - 1)

\* Number of decimal digits of n >= 1.
RECURSIVE Digits(_)
Digits(n) == IF n < 10 THEN 1 ELSE 1 + Digits(n \div 10)

\* Exact comparison a < b of two finite values with n.v > 0.
LessPos(a, b) ==
    LET oa == Digits(a.v) + a.e
        ob == Digits(b.v) + b.e
    IN  IF oa # ob THEN oa < ob
        ELSE IF a.e >= b.e THEN a.v * Pow10(a.e - b.e) < b.v
        ELSE a.v < b.v * Pow10(b.e - a.e)

\* Exact comparison a < b of two finite values.
LessFin(a, b) ==
    IF a.v <= 0 /\ b.v <= 0
    THEN IF a.v = 0 THEN FALSE
         ELSE IF b.v = 0 THEN TRUE
         ELSE LessPos([b EXCEPT !.v = -b.v], [a EXCEPT !.v = -a.v])
    ELSE IF a.v <= 0 THEN TRUE
    ELSE IF b.v <= 0 THEN FALSE
    ELSE LessPos(a, b)

\* f32 addition (finite operands share the exponent 0 of sample values).
FAdd(a, b) ==
    IF a.cls = "nan" \/ b.cls = "nan" THEN NaN
    ELSE IF a.cls = "inf" /\ b.cls = "inf" THEN (IF a.v = b.v THEN a ELSE NaN)
    ELSE IF a.cls = "inf" THEN a
    ELSE IF b.cls = "inf" THEN b
    ELSE [cls |-> "fin", v |-> a.v + b.v, e |-> a.e]

FNeg(a) == IF a.cls = "nan" THEN NaN ELSE [a EXCEPT !.v = -a.v]

FSub(a, b) == FAdd(a, FNeg(b))

\* f32 multiplication.
FMul(a, b) ==
    IF a.cls = "nan" \/ b.cls = "nan" THEN NaN
    ELSE IF a.cls = "inf" \/ b.cls = "inf"
         THEN (IF a.v = 0 \/ b.v = 0 THEN NaN
               ELSE IF Sgn(a.v) = Sgn(b.v) THEN PosInf ELSE NegInf)
    ELSE [cls |-> "fin",
          v |-> Sgn(a.v) * Sgn(b.v) * ((Abs(a.v) * Abs(b.v)) \div SCALE),
          e |-> a.e + b.e]

\* f32::max: the larger operand; a NaN operand is ignored.
FMax(a, b) ==
    IF a.cls = "nan" THEN b
    ELSE IF b.cls = "nan" THEN a
    ELSE IF a.cls = "inf" THEN (IF a.v > 0 THEN a ELSE b)
    ELSE IF b.cls = "inf" THEN (IF b.v > 0 THEN b ELSE a)
    ELSE IF LessFin(a, b) THEN b ELSE a

\* Largest r with r * r <= n, for n >= 0.
RECURSIVE ISqrtIn(_, _, _)
ISqrtIn(n, lo, hi) ==
    IF lo = hi THEN lo
    ELSE LET mid == (lo + hi + 1) \div 2
         IN  IF mid * mid <= n THEN ISqrtIn(n, mid, hi)
             ELSE ISqrtIn(n, lo, mid - 1)
ISqrt(n) == ISqrtIn(n, 0, IF n < 46340 THEN n ELSE 46340)

\* (re * re + im * im).sqrt(): the square is kept at full precision, so the
\* magnitude is zero exactly when both components are zero.
Hypot(re, im) ==
    IF re.cls = "nan" \/ im.cls = "nan" THEN NaN
    ELSE IF re.cls = "inf" \/ im.cls = "inf" THEN PosInf
    ELSE [cls |-> "fin", v |-> ISqrt(re.v * re.v + im.v * im.v), e |-> re.e]

\* Extra decimal digits a quotient keeps.
DivDigits == 1 + 1 + 1

\* f32 division a / b.
FDiv(a, b) ==
    IF a.cls = "nan" \/ b.cls = "nan" THEN NaN
    ELSE IF a.cls = "inf"
         THEN (IF b.cls = "inf" THEN NaN
               ELSE IF (a.v > 0) = (b.v >= 0) THEN PosInf ELSE NegInf)
    ELSE IF b.cls = "inf" THEN Fin(0)
    ELSE IF b.v = 0
         THEN (IF a.v = 0 THEN NaN ELSE IF a.v > 0 THEN PosInf ELSE NegInf)
    ELSE [cls |-> "fin",
          v |-> Sgn(a.v) * Sgn(b.v)
                * ((Abs(a.v) * SCALE * Pow10(DivDigits)) \div Abs(b.v)),
          e |-> a.e - b.e - DivDigits]

\* floor(log10(p / q)) for p, q >= 1.
RECURSIVE FloorLog10(_, _)
FloorLog10(p, q) ==
    IF p >= q
    THEN (IF p \div 10 >= q THEN 1 + FloorLog10(p \div 10, q) ELSE 0)
    ELSE FloorLog10(p * 10, q) - 1

\* f32::log10, rounded down to a whole number: log10(0) = -infinity, the
\* logarithm of a negative number is NaN.
FLog10(a) ==
    IF a.cls = "nan" THEN NaN
    ELSE IF a.cls = "inf" THEN (IF a.v > 0 THEN PosInf ELSE NaN)
    ELSE IF a.v < 0 THEN NaN
    ELSE IF a.v = 0 THEN NegInf
    ELSE Fin((FloorLog10(a.v, SCALE) + a.e) * SCALE)

\* cos and sin at k twelfths of a turn, in fixed point (exact at the
\* multiples of a quarter and of a sixth turn, rounded elsewhere).
CosTable == <<100, 87, 50, 0, -50, -87, -100, -87, -50, 0, 50, 87>>
SinTable == <<0, 50, 87, 100, 87, 50, 0, -50, -87, -100, -87, -50>>

\* --------------------------------------------------- program constants
\* TWO_PI: a full circle, in twelfths of a turn.
TWO_PI == 12
\* EPSILON = 1e-12, the smallest allowed reference amplitude.
EPSILON == [cls |-> "fin", v |-> SCALE, e |-> -12]
\* DB_SCALE = 20.0
DB_SCALE == 20
\* Window coefficients, in hundredths.
HANN_A0 == 50
HANN_A1 == 50
HAMMING_ALPHA == 54
HAMMING_BETA == 46
BLACKMAN_A0 == 42
BLACKMAN_A1 == 50
BLACKMAN_A2 == 8

\* f32::cos and f32::sin of an angle given in twelfths of a turn.
Cos(a) == Fin(CosTable[(a % TWO_PI) + 1])
Sin(a) == Fin(SinTable[(a % TWO_PI) + 1])

\* input.iter().any(|v| !v.is_finite())
AnyNonFinite(block) == \E i \in 1..Len(block) : ~IsFinite(block[i])

\* ------------------------------------------------------- apply_window
\* denom = (n as f32 - 1.0).max(1.0)
Denom(n) == IF n - 1 > 1 THEN n - 1 ELSE 1

\* phase = TWO_PI * i as f32 / denom, for the 0-based index i
Phase(i, n) == (TWO_PI * i) \div Denom(n)

HannW(i, n) == FSub(Fin(HANN_A0), FMul(Fin(HANN_A1), Cos(Phase(i, n))))

HammingW(i, n) ==
    FSub(Fin(HAMMING_ALPHA), FMul(Fin(HAMMING_BETA), Cos(Phase(i, n))))

BlackmanW(i, n) ==
    FAdd(FSub(Fin(BLACKMAN_A0), FMul(Fin(BLACKMAN_A1), Cos(Phase(i, n)))),
         FMul(Fin(BLACKMAN_A2), Cos(2 * Phase(i, n))))

\* Mutant of WindowOutput: the fallback arm forgets copy_from_slice and
\* leaves the zero-initialized output.
WindowOutput_NoCopy(input, window_type) ==
    LET n == Len(input)
    IN  CASE window_type = "hann" ->
               [i \in 1..n |-> FMul(input[i], HannW(i - 1, n))]
          [] window_type = "hamming" ->
               [i \in 1..n |-> FMul(input[i], HammingW(i - 1, n))]
          [] window_type = "blackman" ->
               [i \in 1..n |-> FMul(input[i], BlackmanW(i - 1, n))]
          [] OTHER -> [i \in 1..n |-> Fin(0)]

\* The match on window_type: the output of apply_window for a block that
\* passed its finiteness check.
WindowOutput(input, window_type) ==
    LET n == Len(input)
    IN  CASE window_type = "hann" ->
               [i \in 1..n |-> FMul(input[i], HannW(i - 1, n))]
          [] window_type = "hamming" ->
               [i \in 1..n |-> FMul(input[i], HammingW(i - 1, n))]
          [] window_type = "blackman" ->
               [i \in 1..n |-> FMul(input[i], BlackmanW(i - 1, n))]
          [] OTHER -> input

\* ----------------------------------------------------------- fft_real
\* input.iter().map(|&x| Complex32::new(x, 0.0)).collect()
ToComplex(block) == [i \in 1..Len(block) |-> [re |-> block[i], im |-> Fin(0)]]

\* One term x * e^(j * angle) of a bin, added to the accumulator acc.
Accumulate(acc, x, angle) ==
    [re |-> FAdd(acc.re, FSub(FMul(x.re, Cos(angle)), FMul(x.im, Sin(angle)))),
     im |-> FAdd(acc.im, FAdd(FMul(x.re, Sin(angle)), FMul(x.im, Cos(angle))))]

\* Bin k of the forward transform of chunk, summed over the first m samples:
\* X_k = sum_i x_i * e^(-2 pi j k i / n).
RECURSIVE BinSum(_, _, _)
BinSum(chunk, k, m) ==
    IF m = 0 THEN [re |-> Fin(0), im |-> Fin(0)]
    ELSE Accumulate(BinSum(chunk, k, m - 1), chunk[m],
                    -((TWO_PI * k * (m - 1)) \div Len(chunk)))

\* The forward transform of one chunk.
Dft(chunk) == [k \in 1..Len(chunk) |-> BinSum(chunk, k - 1, Len(chunk))]

\* fft.process(&mut buffer) for a plan of length len: the buffer is
\* transformed chunk by chunk; its length must be a multiple of len.
RECURSIVE ProcessChunks(_, _)
ProcessChunks(buffer, len) ==
    IF Len(buffer) = 0 THEN <<>>
    ELSE Dft(SubSeq(buffer, 1, len))
         \o ProcessChunks(SubSeq(buffer, len + 1, Len(buffer)), len)

\* Mutant of Interleave: the imaginary part is pushed before the real part.
RECURSIVE Interleave_Swapped(_)
Interleave_Swapped(buffer) ==
    IF Len(buffer) = 0 THEN <<>>
    ELSE <<buffer[1].im, buffer[1].re>> \o Interleave_Swapped(Tail(buffer))

\* The loop pushing c.re then c.im for every bin.
RECURSIVE Interleave(_)
Interleave(buffer) ==
    IF Len(buffer) = 0 THEN <<>>
    ELSE <<buffer[1].re, buffer[1].im>> \o Interleave(Tail(buffer))

\* ----------------------------------------------------- magnitude_dbfs
\* safe_ref = reference.max(EPSILON)
SafeRef(reference) == FMax(reference, EPSILON)

\* db = DB_SCALE * (mag / safe_ref).log10(), mag = (re*re + im*im).sqrt()
Db(re, im, safe_ref) ==
    FMul(Fin(DB_SCALE * SCALE), FLog10(FDiv(Hypot(re, im), safe_ref)))

\* The while loop over the pairs of spec, from the 0-based position i.
RECURSIVE MagLoop(_, _, _)
MagLoop(spec, i, safe_ref) ==
    IF i + 1 < Len(spec)
    THEN <<Db(spec[i + 1], spec[i + 2], safe_ref)>>
         \o MagLoop(spec, i + 2, safe_ref)
    ELSE <<>>

Magnitudes(spec, reference) == MagLoop(spec, 0, SafeRef(reference))

\* ------------------------------------------------------------ the calls
Threads == 1..NThreads

\* A sample of amplitude a.
Amp(a) == Fin(a * SCALE)

FiniteSamples == {Amp(a) : a \in -1..MaxAmp}
NonFiniteSamples == {NaN, PosInf, NegInf}

\* Every block of finite samples of a modelled length, and every such block
\* with one sample replaced by a non-finite one.
FiniteBlocks == UNION {[1..n -> FiniteSamples] : n \in Lengths}
NonFiniteBlocks ==
    UNION {{[x EXCEPT ![i] = s] : i \in 1..Len(x), s \in NonFiniteSamples} :
             x \in FiniteBlocks}
Blocks == FiniteBlocks \cup NonFiniteBlocks

\* Window selectors: the three named families, "none" and an unrecognized one.
Windows == {"hann", "hamming", "blackman", "none", "kaiser"}

\* Reference amplitudes: negative, zero and positive.
References == {Amp(-1), Amp(0), Amp(1)}

MkCall(o, x, w, r) ==
    [op |-> o, input |-> x, window_type |-> w, reference |-> r]

\* The calls of the single-threaded specification: every operation on every
\* block, with every selector and reference the operation reads.
SeqCalls ==
    {MkCall("fft_real", x, "none", Amp(0)) : x \in Blocks}
    \cup {MkCall("apply_window", x, w, Amp(0)) : x \in Blocks, w \in Windows}
    \cup {MkCall("magnitude_dbfs", x, "none", r) : x \in Blocks, r \in References}
    \cup {MkCall("stft_frame", x, w, r) :
            x \in Blocks, w \in Windows, r \in References}

\* The calls of the concurrent specification: transforms of four blocks, and
\* the other operations on a failing and a succeeding block.
ConcBlocks ==
    {<<>>, <<NaN>>, <<Amp(MaxAmp)>>, <<Amp(MaxAmp), Amp(-1), Amp(0), Amp(0)>>}
ConcCalls ==
    {MkCall("fft_real", x, "none", Amp(0)) : x \in ConcBlocks}
    \cup {MkCall("magnitude_dbfs", x, "none", Amp(0)) :
            x \in {<<NaN>>, <<Amp(MaxAmp)>>}}
    \cup {MkCall("stft_frame", <<PosInf>>, "hann", Amp(0)),
          MkCall("apply_window", <<NegInf>>, "hann", Amp(0))}

\* ------------------------------------------------------------- the state
VARIABLES
    pc,            \* per thread: where its call stands
    op,            \* per thread: the exported operation it called
    input,         \* per thread: the call's sample block
    window_type,   \* per thread: the call's window selector
    reference,     \* per thread: the call's reference amplitude
    windowed,      \* per thread: stft_frame's windowed block
    buffer,        \* per thread: fft_real's complex buffer
    fft,           \* per thread: the plan fft_real obtained (0: none)
    output,        \* per thread: fft_real's interleaved output
    result,        \* per thread: how the call ended and what it returned
    plannerInit,   \* FFT_PLANNER has been initialized
    lockHolder,    \* the thread holding the planner mutex (0: free)
    poisoned,      \* the planner mutex is poisoned
    cache,         \* the planner's plans by length: length -> plan
    plans          \* every plan constructed so far: plan -> its length

frame == <<op, input, window_type, reference>>
locals == <<windowed, buffer, fft, output>>
planner == <<plannerInit, cache, plans>>
vars == <<pc, op, input, window_type, reference, windowed, buffer, fft,
          output, result, plannerInit, lockHolder, poisoned, cache, plans>>

NoResult == [kind |-> "none", out |-> <<>>]

Init ==
    /\ pc = [t \in Threads |-> "idle"]
    /\ op = [t \in Threads |-> "fft_real"]
    /\ input = [t \in Threads |-> <<>>]
    /\ window_type = [t \in Threads |-> "none"]
    /\ reference = [t \in Threads |-> Amp(0)]
    /\ windowed = [t \in Threads |-> <<>>]
    /\ buffer = [t \in Threads |-> <<>>]
    /\ fft = [t \in Threads |-> 0]
    /\ output = [t \in Threads |-> <<>>]
    /\ result = [t \in Threads |-> NoResult]
    /\ plannerInit = FALSE
    /\ lockHolder = 0
    /\ poisoned = FALSE
    /\ cache = [n \in {} |-> 0]
    /\ plans = <<>>

Goto(t, label) == pc' = [pc EXCEPT ![t] = label]

\* The exported call of thread t is over: its locals are dropped.
Finish(t, kind, out) ==
    /\ pc' = [pc EXCEPT ![t] = "done"]
    /\ result' = [result EXCEPT ![t] = [kind |-> kind, out |-> out]]
    /\ windowed' = [windowed EXCEPT ![t] = <<>>]
    /\ buffer' = [buffer EXCEPT ![t] = <<>>]
    /\ fft' = [fft EXCEPT ![t] = 0]
    /\ output' = [output EXCEPT ![t] = <<>>]

\* A normal return of the exported call.
Return(t, out) ==
    /\ Finish(t, "ok", out)
    /\ UNCHANGED <<lockHolder, poisoned>>

\* panic!: the call unwinds without a value; a mutex guard the thread holds
\* is dropped while panicking, which poisons the mutex.
Panic(t, kind) ==
    /\ Finish(t, kind, <<>>)
    /\ poisoned' = (poisoned \/ lockHolder = t)
    /\ lockHolder' = IF lockHolder = t THEN 0 ELSE lockHolder

\* Mutant of MagInput: stft_frame passes the raw input instead of the
\* windowed block.
MagInput_Raw(t) == input[t]

\* The block magnitude_dbfs (and through it fft_real) receives: stft_frame
\* passes its windowed block, a direct call the caller's input.
MagInput(t) == IF op[t] = "stft_frame" THEN windowed[t] ELSE input[t]

\* ----------------------------------------------------------- the actions
\* A thread calls one of the exported operations. stft_frame starts by
\* calling apply_window.
Call(t, calls) ==
    /\ pc[t] = "idle"
    /\ \E c \in calls :
         /\ op' = [op EXCEPT ![t] = c.op]
         /\ input' = [input EXCEPT ![t] = c.input]
         /\ window_type' = [window_type EXCEPT ![t] = c.window_type]
         /\ reference' = [reference EXCEPT ![t] = c.reference]
         /\ Goto(t, IF c.op = "stft_frame" THEN "apply_window" ELSE c.op)
    /\ UNCHANGED <<locals, result, planner, lockHolder, poisoned>>

\* apply_window: the finiteness check, then the windowed block, returned to
\* the caller or, inside stft_frame, handed on to magnitude_dbfs.
ApplyWindow(t) ==
    /\ pc[t] = "apply_window"
    /\ IF AnyNonFinite(input[t])
       THEN Panic(t, "InvalidInput")
       ELSE IF op[t] = "apply_window"
       THEN Return(t, WindowOutput(input[t], window_type[t]))
       ELSE /\ windowed' = [windowed EXCEPT ![t] =
                               WindowOutput(input[t], window_type[t])]
            /\ Goto(t, "magnitude_dbfs")
            /\ UNCHANGED <<buffer, fft, output, result, lockHolder, poisoned>>
    /\ UNCHANGED <<frame, planner>>

\* magnitude_dbfs: the finiteness check, then the call of fft_real.
MagnitudeEntry(t) ==
    /\ pc[t] = "magnitude_dbfs"
    /\ IF AnyNonFinite(MagInput(t))
       THEN Panic(t, "InvalidInput")
       ELSE /\ Goto(t, "fft_real")
            /\ UNCHANGED <<locals, result, lockHolder, poisoned>>
    /\ UNCHANGED <<frame, planner>>

\* fft_real returns to its caller: to the thread's caller, or to
\* magnitude_dbfs, which goes on with the spectrum.
FftReturn(t, out) ==
    IF op[t] = "fft_real"
    THEN Return(t, out)
    ELSE /\ output' = [output EXCEPT ![t] = out]
         /\ buffer' = [buffer EXCEPT ![t] = <<>>]
         /\ fft' = [fft EXCEPT ![t] = 0]
         /\ Goto(t, "magnitudes")
         /\ UNCHANGED <<windowed, result, lockHolder, poisoned>>

\* Mutant of FftRealEntry: the finiteness check is missing.
FftRealEntry_NoCheck(t) ==
    /\ pc[t] = "fft_real"
    /\ IF Len(MagInput(t)) = 0
       THEN FftReturn(t, <<>>)
       ELSE /\ buffer' = [buffer EXCEPT ![t] = ToComplex(MagInput(t))]
            /\ Goto(t, "lock")
            /\ UNCHANGED <<windowed, fft, output, result, lockHolder, poisoned>>
    /\ UNCHANGED <<frame, planner>>

\* Mutant of FftRealEntry: the planner lock is taken on entry, before the
\* finiteness check, so the check panics with the guard held.
FftRealEntry_LockFirst(t) ==
    /\ pc[t] = "fft_real"
    /\ IF Len(MagInput(t)) = 0
       THEN FftReturn(t, <<>>) /\ UNCHANGED plannerInit
       ELSE /\ lockHolder = 0
            /\ plannerInit' = TRUE
            /\ IF AnyNonFinite(MagInput(t))
               THEN /\ Finish(t, "InvalidInput", <<>>)
                    /\ poisoned' = TRUE
                    /\ lockHolder' = 0
               ELSE /\ buffer' = [buffer EXCEPT ![t] = ToComplex(MagInput(t))]
                    /\ lockHolder' = t
                    /\ Goto(t, "plan")
                    /\ UNCHANGED <<windowed, fft, output, result, poisoned>>
    /\ UNCHANGED <<frame, cache, plans>>

\* fft_real: the empty block returns early, a non-finite sample panics,
\* otherwise the complex buffer is built.
FftRealEntry(t) ==
    /\ pc[t] = "fft_real"
    /\ IF Len(MagInput(t)) = 0
       THEN FftReturn(t, <<>>)
       ELSE IF AnyNonFinite(MagInput(t))
       THEN Panic(t, "InvalidInput")
       ELSE /\ buffer' = [buffer EXCEPT ![t] = ToComplex(MagInput(t))]
            /\ Goto(t, "lock")
            /\ UNCHANGED <<windowed, fft, output, result, lockHolder, poisoned>>
    /\ UNCHANGED <<frame, planner>>

\* planner().lock().expect("planner lock"): the planner is initialized on
\* first use; the thread waits for the mutex; a poisoned mutex panics.
Lock(t) ==
    /\ pc[t] = "lock"
    /\ lockHolder = 0
    /\ plannerInit' = TRUE
    /\ IF poisoned
       THEN Panic(t, "PlannerLock")
       ELSE /\ lockHolder' = t
            /\ Goto(t, "plan")
            /\ UNCHANGED <<locals, result, poisoned>>
    /\ UNCHANGED <<frame, cache, plans>>

\* Mutant of PlanLookup: the cache is never consulted, every call builds.
PlanLookup_NoReuse(t) ==
    /\ pc[t] = "plan"
    /\ Goto(t, "build")
    /\ UNCHANGED <<frame, planner, locals, result, lockHolder, poisoned>>

\* planner.plan_fft_forward(n), the lookup: a cached plan of length n is
\* returned, otherwise one is built.
PlanLookup(t) ==
    /\ pc[t] = "plan"
    /\ IF Len(buffer[t]) \in DOMAIN cache
       THEN /\ fft' = [fft EXCEPT ![t] = cache[Len(buffer[t])]]
            /\ Goto(t, "unlock")
       ELSE /\ Goto(t, "build")
            /\ UNCHANGED fft
    /\ UNCHANGED <<frame, planner, windowed, buffer, output, result,
                   lockHolder, poisoned>>

\* planner.plan_fft_forward(n), the miss: a plan of length n is constructed,
\* stored in the cache and returned.
PlanBuild(t) ==
    /\ pc[t] = "build"
    /\ Len(plans) < MaxPlans
    /\ LET n == Len(buffer[t])
           id == Len(plans) + 1
       IN  /\ plans' = Append(plans, n)
           /\ cache' = [m \in DOMAIN cache \cup {n} |->
                           IF m = n THEN id ELSE cache[m]]
           /\ fft' = [fft EXCEPT ![t] = id]
    /\ Goto(t, "unlock")
    /\ UNCHANGED <<frame, plannerInit, windowed, buffer, output, result,
                   lockHolder, poisoned>>

\* Mutant of Unlock: the guard lives on past the block, so the transform
\* starts with the mutex still held.
Unlock_Late(t) ==
    /\ pc[t] = "unlock"
    /\ Goto(t, "process")
    /\ UNCHANGED <<frame, planner, locals, result, lockHolder, poisoned>>

\* The end of the block holding the guard: the mutex is released.
Unlock(t) ==
    /\ pc[t] = "unlock"
    /\ lockHolder' = 0
    /\ Goto(t, "process")
    /\ UNCHANGED <<frame, planner, locals, result, poisoned>>

\* Mutant of Process: the plan works in a scratch area of its own, so an
\* execution also overwrites the data of the other executions in flight on
\* the same plan.
Process_SharedScratch(t) ==
    /\ pc[t] = "process"
    /\ buffer' = [u \in Threads |->
                     IF u = t \/ (pc[u] = "process" /\ fft[u] = fft[t])
                     THEN ProcessChunks(buffer[t], plans[fft[t]])
                     ELSE buffer[u]]
    /\ Goto(t, "flatten")
    /\ UNCHANGED <<windowed, fft, output, result, lockHolder, poisoned>>
    /\ UNCHANGED <<frame, planner>>

\* fft.process(&mut buffer): the plan transforms the thread's buffer in
\* place; a buffer whose length is no multiple of the plan's panics.
Process(t) ==
    /\ pc[t] = "process"
    /\ IF Len(buffer[t]) % plans[fft[t]] # 0
       THEN Panic(t, "FftLength")
       ELSE /\ buffer' = [buffer EXCEPT ![t] =
                             ProcessChunks(buffer[t], plans[fft[t]])]
            /\ Goto(t, "flatten")
            /\ UNCHANGED <<windowed, fft, output, result, lockHolder, poisoned>>
    /\ UNCHANGED <<frame, planner>>

\* The complex results are flattened and fft_real returns them.
Flatten(t) ==
    /\ pc[t] = "flatten"
    /\ FftReturn(t, Interleave(buffer[t]))
    /\ UNCHANGED <<frame, planner>>

\* magnitude_dbfs turns the spectrum into decibels and returns them.
MagnitudeLoop(t) ==
    /\ pc[t] = "magnitudes"
    /\ Return(t, Magnitudes(output[t], reference[t]))
    /\ UNCHANGED <<frame, planner>>

\* The caller has taken the call's outcome: the thread is free to call again.
Resume(t) ==
    /\ pc[t] = "done"
    /\ Goto(t, "idle")
    /\ op' = [op EXCEPT ![t] = "fft_real"]
    /\ input' = [input EXCEPT ![t] = <<>>]
    /\ window_type' = [window_type EXCEPT ![t] = "none"]
    /\ reference' = [reference EXCEPT ![t] = Amp(0)]
    /\ result' = [result EXCEPT ![t] = NoResult]
    /\ UNCHANGED <<locals, planner, lockHolder, poisoned>>

\* Any number of threads call concurrently.
Next ==
    \E t \in Threads :
        \/ Call(t, ConcCalls)
        \/ ApplyWindow(t)
        \/ MagnitudeEntry(t)
        \/ FftRealEntry(t)
        \/ Lock(t)
        \/ PlanLookup(t)
        \/ PlanBuild(t)
        \/ Unlock(t)
        \/ Process(t)
        \/ Flatten(t)
        \/ MagnitudeLoop(t)
        \/ Resume(t)

Spec == Init /\ [][Next]_vars

\* One thread calls every operation on every block.
NextSeq ==
    \/ Call(1, SeqCalls)
    \/ ApplyWindow(1)
    \/ MagnitudeEntry(1)
    \/ FftRealEntry(1)
    \/ Lock(1)
    \/ PlanLookup(1)
    \/ PlanBuild(1)
    \/ Unlock(1)
    \/ Process(1)
    \/ Flatten(1)
    \/ MagnitudeLoop(1)
    \/ Resume(1)

SpecSeq == Init /\ [][NextSeq]_vars

\* ------------------------------------------------------------ the claims
NamedWindows == {"hann", "hamming", "blackman"}
InLockSection(t) == pc[t] \in {"plan", "build", "unlock"}
Ok(out) == [kind |-> "ok", out |-> out]
InvalidInput == [kind |-> "InvalidInput", out |-> <<>>]

\* What fft_real returns for a finite block, as a function of the block.
FftRealValue(x) ==
    IF Len(x) = 0 THEN <<>>
    ELSE Interleave(ProcessChunks(ToComplex(x), Len(x)))

\* How apply_window and magnitude_dbfs end, as functions of their arguments.
ApplyWindowOutcome(x, w) ==
    IF AnyNonFinite(x) THEN InvalidInput ELSE Ok(WindowOutput(x, w))
MagnitudeOutcome(x, r) ==
    IF AnyNonFinite(x) THEN InvalidInput ELSE Ok(Magnitudes(FftRealValue(x), r))

\* magnitude_db(apply_window(x, family), ref), made by the caller.
Composed(x, w, r) ==
    LET a == ApplyWindowOutcome(x, w)
    IN  IF a.kind = "ok" THEN MagnitudeOutcome(a.out, r) ELSE a

\* C1. Plan cache reuse: no two constructed plans have the same length, the
\* cache maps each length to the one plan constructed for it, every
\* constructed plan is stored, a thread holding a plan holds the stored plan
\* of its block length, and after a successful transform of length N > 0 the
\* cache holds a plan for N.
PlanCacheReuse ==
    /\ \A i, j \in 1..Len(plans) : plans[i] = plans[j] => i = j
    /\ \A n \in DOMAIN cache :
         cache[n] \in 1..Len(plans) /\ plans[cache[n]] = n
    /\ \A i \in 1..Len(plans) :
         plans[i] \in DOMAIN cache /\ cache[plans[i]] = i
    /\ \A t \in Threads :
         fft[t] # 0 =>
            /\ Len(buffer[t]) \in DOMAIN cache
            /\ fft[t] = cache[Len(buffer[t])]
    /\ \A t \in Threads :
         (pc[t] = "done" /\ op[t] = "fft_real" /\ result[t].kind = "ok"
            /\ Len(input[t]) > 0)
         => Len(input[t]) \in DOMAIN cache

\* C1 witness: a thread has just been handed the only plan constructed so
\* far, which an earlier, completed call of the same length had built.
PlanReused ==
    \E t, u \in Threads :
        /\ t # u
        /\ pc[t] = "unlock" /\ fft[t] # 0
        /\ Len(plans) = 1
        /\ pc[u] = "done" /\ op[u] = "fft_real" /\ result[u].kind = "ok"
        /\ Len(input[u]) = Len(buffer[t])

\* C2. Non-finite rejection: a call whose block holds a non-finite sample
\* ends at its next step, with InvalidInput and no output, and that step
\* leaves the planner, its mutex and its cache as they were.
NonFiniteRejection ==
    [][\A t \in Threads :
          (pc[t] \notin {"idle", "done"} /\ AnyNonFinite(input[t])
             /\ pc'[t] # pc[t])
          => /\ pc'[t] = "done"
             /\ result'[t] = InvalidInput
             /\ UNCHANGED <<plannerInit, lockHolder, poisoned, cache, plans>>]_vars

\* C2 witness: stft_frame has failed on a non-finite block while the cache
\* held a plan.
StftRejected ==
    \E t \in Threads :
        /\ pc[t] = "done" /\ op[t] = "stft_frame"
        /\ AnyNonFinite(input[t])
        /\ result[t] = InvalidInput
        /\ Len(plans) > 0

\* C4. Composition law: for a finite block, stft_frame ends exactly as
\* magnitude_dbfs on the output of apply_window ends, and like it leaves a
\* plan for the block's length in the cache.
CompositionLaw ==
    \A t \in Threads :
        (pc[t] = "done" /\ op[t] = "stft_frame" /\ ~AnyNonFinite(input[t]))
        => /\ result[t] = Composed(input[t], window_type[t], reference[t])
           /\ Len(input[t]) > 0 => Len(input[t]) \in DOMAIN cache

\* C4 witness: stft_frame has returned the spectrum of a Hann-windowed block
\* of four samples with a bin of finite level.
StftReturned ==
    \E t \in Threads :
        /\ pc[t] = "done" /\ op[t] = "stft_frame"
        /\ window_type[t] = "hann" /\ Len(input[t]) = 4
        /\ result[t].kind = "ok" /\ Len(result[t].out) = 4
        /\ \E i \in 1..4 : IsFinite(result[t].out[i])

\* C5. dB floor behaviour: with a reference <= 0, every entry magnitude_dbfs
\* returns for a finite block is finite.
DbFloorFinite ==
    \A t \in Threads :
        (pc[t] = "done" /\ op[t] = "magnitude_dbfs" /\ result[t].kind = "ok"
           /\ reference[t].v <= 0)
        => \A i \in 1..Len(result[t].out) : IsFinite(result[t].out[i])

\* C6. Lock scope and mutual exclusion: at most one thread is in the plan
\* lookup-or-create step, the mutex is held exactly by the thread in that
\* step (and is free when no thread is), and no thread that is executing or
\* has executed its transform holds it.
LockScope ==
    /\ Cardinality({t \in Threads : InLockSection(t)}) <= 1
    /\ \A t \in Threads : (lockHolder = t) <=> InLockSection(t)
    /\ (\A t \in Threads : ~InLockSection(t)) => lockHolder = 0
    /\ \A t \in Threads :
         pc[t] \in {"process", "flatten", "magnitudes"} => lockHolder # t

\* C6 witness: one thread executes its transform while another is in the
\* plan lookup, holding the mutex.
LookupDuringExecution ==
    \E t, u \in Threads :
        /\ pc[t] = "process"
        /\ pc[u] = "plan" /\ lockHolder = u

\* C7, as claimed. Exclusive plan execution: no two threads are executing a
\* transform on the same plan at the same time.
ExclusivePlanExecution ==
    \A t, u \in Threads :
        (t # u /\ pc[t] = "process" /\ pc[u] = "process") => fft[t] # fft[u]

\* C7, amended. Executions on one plan may overlap, each on the buffer of
\* its own thread: the plan a thread executes has the length of the thread's
\* buffer, the buffer holds the thread's own samples until the thread's
\* execution and their transform after it, whatever the other threads do.
PrivateBufferExecution ==
    \A t \in Threads :
        /\ pc[t] \in {"lock", "plan", "build", "unlock", "process"}
             => buffer[t] = ToComplex(MagInput(t))
        /\ pc[t] \in {"process", "flatten"}
             => fft[t] # 0 /\ plans[fft[t]] = Len(buffer[t])
        /\ pc[t] = "flatten"
             => buffer[t] = ProcessChunks(ToComplex(MagInput(t)),
                                          Len(MagInput(t)))

\* C7 witness: a thread has executed a transform of four samples on a plan
\* on which another thread's execution is still in flight.
OverlappingExecutions ==
    \E t, u \in Threads :
        /\ t # u
        /\ pc[t] = "flatten" /\ pc[u] = "process"
        /\ fft[t] = fft[u]
        /\ Len(buffer[t]) = 4

\* C8. Output layout: for a finite block of length N, fft_real returns 2N
\* scalars, the real part of bin k at position 2k and its imaginary part at
\* position 2k+1 (0-based); a call with the empty block returns the empty
\* sequence and never holds the mutex or a plan.
OutputLayout ==
    \A t \in Threads :
        /\ (pc[t] = "done" /\ op[t] = "fft_real" /\ ~AnyNonFinite(input[t]))
           => LET n == Len(input[t])
                  bins == Dft(ToComplex(input[t]))
              IN  /\ result[t].kind = "ok"
                  /\ Len(result[t].out) = 2 * n
                  /\ \A k \in 0..(n - 1) :
                       /\ result[t].out[2 * k + 1] = bins[k + 1].re
                       /\ result[t].out[2 * k + 2] = bins[k + 1].im
        /\ (op[t] = "fft_real" /\ Len(input[t]) = 0)
           => /\ pc[t] \in {"idle", "fft_real", "done"}
              /\ lockHolder # t
              /\ fft[t] = 0
              /\ pc[t] = "done" => result[t] = Ok(<<>>)

\* C8 witness: fft_real has returned the spectrum of four samples, with a
\* non-zero imaginary part in bin 1.
FftReturned ==
    \E t \in Threads :
        /\ pc[t] = "done" /\ op[t] = "fft_real"
        /\ Len(input[t]) = 4
        /\ result[t].kind = "ok"
        /\ result[t].out[4] # Fin(0)

\* C9. Window identity: for a finite block and a selector that names none of
\* the three families, apply_window returns the block itself.
WindowIdentity ==
    \A t \in Threads :
        (pc[t] = "done" /\ op[t] = "apply_window"
           /\ window_type[t] \notin NamedWindows /\ ~AnyNonFinite(input[t]))
        => result[t] = Ok(input[t])

\* C9 witness: apply_window has returned for an unrecognized selector and a
\* block of four samples, not all zero.
UnrecognizedWindowReturned ==
    \E t \in Threads :
        /\ pc[t] = "done" /\ op[t] = "apply_window"
        /\ window_type[t] = "kaiser"
        /\ Len(input[t]) = 4
        /\ \E i \in 1..4 : input[t][i] # Fin(0)
        /\ result[t].kind = "ok"

\* C10. Failure isolation: the mutex is never poisoned, no call ends on the
\* "planner lock" panic, no thread holds the mutex over a block with a
\* non-finite sample, and every completed call on a finite block has
\* returned a value.
FailureIsolation ==
    /\ ~poisoned
    /\ \A t \in Threads :
         /\ result[t].kind # "PlannerLock"
         /\ lockHolder = t => ~AnyNonFinite(MagInput(t))
         /\ (pc[t] = "done" /\ ~AnyNonFinite(input[t])) => result[t].kind = "ok"

\* C10 witness: one call has failed with InvalidInput, and another thread's
\* transform holds the mutex with the planner initialized.
LockAfterFailure ==
    \E t, u \in Threads :
        /\ pc[t] = "done" /\ result[t] = InvalidInput
        /\ AnyNonFinite(input[t])
        /\ lockHolder = u /\ pc[u] = "plan"
        /\ plannerInit

====
